---- MODULE Spec2Model ----
(***************************************************************************)
(* gstat-core: the Game::fetch lifecycle over a stub Protocol, the Parser  *)
(* error-wrapping shims over a stub codec, and the Display of Error<E>.    *)
(***************************************************************************)
EXTENDS Integers, Sequences, FiniteSets, TLC

\* ---------------------------------------------------------------- bounds
MaxQuery == 1
MaxAddr == 1
MaxPayload == 1
MaxMsgLen == 2

Queries == 0..MaxQuery
Addresses == 0..MaxAddr
Payloads == 0..MaxPayload

\* ------------------------------------------------------- Option / Result
NoneOpt == <<>>
Some(x) == <<x>>
Options(S) == {NoneOpt} \cup {Some(x) : x \in S}

Unit == "()"
NoResult == [tag |-> "None"]
Ok(v) == [tag |-> "Ok", val |-> v]
Err(e) == [tag |-> "Err", err |-> e]
IsOk(r) == r.tag = "Ok"
IsErr(r) == r.tag = "Err"

\* ------------------------------------------------------------ error.rs
Variants == {"GameError", "ParserError", "ProtocolError", "QueryError", "ResponseError"}

ErrorDetailNew(message, inner) == [message |-> message, inner |-> inner]

ErrorOf(variant, detail) == [variant |-> variant, detail |-> detail]

Prefix == <<"[", "G", "S", "T", "A", "T", " ", "E", "R", "R", "O", "R", " ", "(">>
Separator == <<")", ":", " ">>

\* ErrorDetail::display: write!(f, "[GSTAT ERROR ({}): {}", category, self.message)
DetailDisplay(detail, category) == Prefix \o category \o Separator \o detail.message

\* the match with the Parser arm passing the Protocol literal
CategoryBroken(variant) ==
  CASE variant = "GameError" -> <<"G", "a", "m", "e">>
    [] variant = "ParserError" -> <<"P", "r", "o", "t", "o", "c", "o", "l">>
    [] variant = "ProtocolError" -> <<"P", "r", "o", "t", "o", "c", "o", "l">>
    [] variant = "QueryError" -> <<"Q", "u", "e", "r", "y">>
    [] variant = "ResponseError" -> <<"R", "e", "s", "p", "o", "n", "s", "e">>

\* the category literal each match arm of Display::fmt passes to display
Category(variant) ==
  CASE variant = "GameError" -> <<"G", "a", "m", "e">>
    [] variant = "ParserError" -> <<"P", "a", "r", "s", "e", "r">>
    [] variant = "ProtocolError" -> <<"P", "r", "o", "t", "o", "c", "o", "l">>
    [] variant = "QueryError" -> <<"Q", "u", "e", "r", "y">>
    [] variant = "ResponseError" -> <<"R", "e", "s", "p", "o", "n", "s", "e">>

\* impl Display for Error<E>
Display(e) == DetailDisplay(e.detail, Category(e.variant))

\* messages a caller hands to ErrorDetail::new: every text over MsgChars up to MaxMsgLen
MsgChars == {"G", ")"}
Messages == UNION {[1..n -> MsgChars] : n \in 0..MaxMsgLen}

\* --------------------------------------------------- stub Protocol
\* errors a stub Protocol operation may return (Error<P::E>)
StubErrors ==
  {ErrorOf(v, ErrorDetailNew(m, i)) :
     v \in {"ProtocolError", "ParserError"},
     m \in {<<"d", "n", "s">>, <<>>},
     i \in Options(Payloads)}

Responses == [id : Queries]

UnitResults == {Ok(Unit)} \cup {Err(e) : e \in StubErrors}
ResponseResults == {Ok(r) : r \in Responses} \cup {Err(e) : e \in StubErrors}

Call(op, arg) == [ev |-> "call", op |-> op, arg |-> arg]
Ret(op, res) == [ev |-> "ret", op |-> op, res |-> res]

VARIABLES
  pc,        \* where the fetch future is: idle, the await it is suspended at, done, cancelled
  query,     \* fetch's query argument (Option)
  address,   \* fetch's address argument (Option)
  conn,      \* state of the protocol instance made by _protocol()
  trace,     \* calls made on the protocol instance and their returns, in order
  response,  \* fetch's local `response` (Option)
  result,    \* what fetch returned
  err,       \* an Error<E> value under display (Option)
  shown,     \* the text Display wrote for err (Option)
  parser,    \* the stub Parser: which of its primitives fail, and with what payload
  ser,       \* the last serialize_query call: argument, primitive results, return value
  de         \* the last deserialize_response call: argument, primitive results, return value

fetchVars == <<pc, query, address, conn, trace, response, result>>
displayVars == <<err, shown>>
parserVars == <<parser, ser, de>>
vars == <<pc, query, address, conn, trace, response, result, err, shown, parser, ser, de>>

\* a propagation that re-wraps the error at the Game layer
PropagateWrapped(e) == ErrorOf("GameError", ErrorDetailNew(e.detail.message, e.detail.inner))

\* the `?` after each await: Err(e) => return Err(From::from(e)), From being the identity
Propagate(e) == e

InitFetch ==
  /\ pc = "idle"
  /\ query = NoneOpt
  /\ address = NoneOpt
  /\ conn = "Disconnected"
  /\ trace = <<>>
  /\ response = NoneOpt
  /\ result = NoResult

\* fetch is called: let protocol = self._protocol(); protocol.connect(address) is awaited
Fetch(q, a) ==
  /\ pc = "idle"
  /\ query' = Some(q)
  /\ address' = Some(a)
  /\ conn' = "Disconnected"
  /\ trace' = <<Call("connect", Some(a))>>
  /\ pc' = "connect"
  /\ UNCHANGED <<response, result, displayVars, parserVars>>

\* connect(address).await without the `?`: the failure is ignored and fetch goes on
ConnectReturnsUnchecked(r) ==
  /\ pc = "connect"
  /\ conn' = IF IsOk(r) THEN "Connected" ELSE conn
  /\ trace' = trace \o <<Ret("connect", r), Call("send_query", query)>>
  /\ pc' = "send_query"
  /\ UNCHANGED <<query, address, response, result, displayVars, parserVars>>

\* connect(address).await? resumes; on Ok, send_query(query) is awaited
ConnectReturns(r) ==
  /\ pc = "connect"
  /\ IF IsOk(r)
       THEN /\ conn' = "Connected"
            /\ trace' = trace \o <<Ret("connect", r), Call("send_query", query)>>
            /\ pc' = "send_query"
            /\ UNCHANGED result
       ELSE /\ trace' = Append(trace, Ret("connect", r))
            /\ result' = Err(Propagate(r.err))
            /\ pc' = "done"
            /\ UNCHANGED conn
  /\ UNCHANGED <<query, address, response, displayVars, parserVars>>

\* send_query with a cleanup on failure: disconnect runs before the error is returned
SendQueryReturnsCleanup(r) ==
  /\ pc = "send_query"
  /\ IF IsOk(r)
       THEN /\ trace' = trace \o <<Ret("send_query", r), Call("receive_response", NoneOpt)>>
            /\ pc' = "receive_response"
            /\ UNCHANGED <<result, conn>>
       ELSE /\ trace' = trace \o <<Ret("send_query", r), Call("disconnect", NoneOpt),
                                    Ret("disconnect", Ok(Unit))>>
            /\ conn' = "Disconnected"
            /\ result' = Err(Propagate(r.err))
            /\ pc' = "done"
  /\ UNCHANGED <<query, address, response, displayVars, parserVars>>

\* send_query(query).await? resumes; on Ok, receive_response() is awaited
SendQueryReturns(r) ==
  /\ pc = "send_query"
  /\ IF IsOk(r)
       THEN /\ trace' = trace \o <<Ret("send_query", r), Call("receive_response", NoneOpt)>>
            /\ pc' = "receive_response"
            /\ UNCHANGED result
       ELSE /\ trace' = Append(trace, Ret("send_query", r))
            /\ result' = Err(Propagate(r.err))
            /\ pc' = "done"
  /\ UNCHANGED <<query, address, conn, response, displayVars, parserVars>>

\* receive_response().await? resumes; on Ok, disconnect() is awaited
ReceiveResponseReturns(r) ==
  /\ pc = "receive_response"
  /\ IF IsOk(r)
       THEN /\ trace' = trace \o <<Ret("receive_response", r), Call("disconnect", NoneOpt)>>
            /\ response' = Some(r.val)
            /\ pc' = "disconnect"
            /\ UNCHANGED result
       ELSE /\ trace' = Append(trace, Ret("receive_response", r))
            /\ result' = Err(Propagate(r.err))
            /\ pc' = "done"
            /\ UNCHANGED response
  /\ UNCHANGED <<query, address, conn, displayVars, parserVars>>

\* disconnect returns and fetch answers with a response other than the received one
DisconnectReturnsStale(r) ==
  /\ pc = "disconnect"
  /\ trace' = Append(trace, Ret("disconnect", r))
  /\ IF IsOk(r)
       THEN /\ conn' = "Disconnected"
            /\ result' = Ok([id |-> query[1]])
       ELSE /\ result' = Err(Propagate(r.err))
            /\ UNCHANGED conn
  /\ pc' = "done"
  /\ UNCHANGED <<query, address, response, displayVars, parserVars>>

\* disconnect treated as best effort: its failure is dropped and the response returned
DisconnectReturnsLenient(r) ==
  /\ pc = "disconnect"
  /\ trace' = Append(trace, Ret("disconnect", r))
  /\ conn' = IF IsOk(r) THEN "Disconnected" ELSE conn
  /\ result' = Ok(response[1])
  /\ pc' = "done"
  /\ UNCHANGED <<query, address, response, displayVars, parserVars>>

\* disconnect().await? resumes; on Ok, fetch returns Ok(response)
DisconnectReturns(r) ==
  /\ pc = "disconnect"
  /\ trace' = Append(trace, Ret("disconnect", r))
  /\ IF IsOk(r)
       THEN /\ conn' = "Disconnected"
            /\ result' = Ok(response[1])
       ELSE /\ result' = Err(Propagate(r.err))
            /\ UNCHANGED conn
  /\ pc' = "done"
  /\ UNCHANGED <<query, address, response, displayVars, parserVars>>

AwaitPoints == {"connect", "send_query", "receive_response", "disconnect"}

\* the task is cancelled: the fetch future is dropped at the await it is suspended at;
\* fetch holds no guard, so nothing of its body runs any more
Cancel ==
  /\ pc \in AwaitPoints
  /\ pc' = "cancelled"
  /\ UNCHANGED <<query, address, conn, trace, response, result, displayVars, parserVars>>

NextFetch ==
  \/ \E q \in Queries, a \in Addresses : Fetch(q, a)
  \/ \E r \in UnitResults : ConnectReturns(r)
  \/ \E r \in UnitResults : SendQueryReturns(r)
  \/ \E r \in ResponseResults : ReceiveResponseReturns(r)
  \/ \E r \in UnitResults : DisconnectReturns(r)
  \/ Cancel

\* ------------------------------------------------------- Display
InitDisplay ==
  /\ err = NoneOpt
  /\ shown = NoneOpt

\* ErrorDetail::new(message, inner) wrapped in one of the five variants
ErrorNew(variant, message, inner) ==
  /\ err' = Some(ErrorOf(variant, ErrorDetailNew(message, inner)))
  /\ shown' = NoneOpt
  /\ UNCHANGED <<fetchVars, parserVars>>

\* format!("{}", err)
Fmt ==
  /\ err # NoneOpt
  /\ shown' = Some(Display(err[1]))
  /\ UNCHANGED <<err, fetchVars, parserVars>>

NextDisplay ==
  \/ \E v \in Variants, m \in Messages, i \in Options(Payloads) : ErrorNew(v, m, i)
  \/ Fmt

\* -------------------------------------------------------- Parser
SerializeFailed ==
  <<"F", "a", "i", "l", "e", "d", " ", "t", "o", " ", "s", "e", "r", "i", "a", "l", "i",
    "z", "e", " ", "q", "u", "e", "r", "y">>
DeserializeFailed ==
  <<"F", "a", "i", "l", "e", "d", " ", "t", "o", " ", "d", "e", "s", "e", "r", "i", "a",
    "l", "i", "z", "e", " ", "r", "e", "s", "p", "o", "n", "s", "e">>

\* the stub codec: a query is written as a marker byte and its id, and read back from that
Encode(q) == <<255, q % 256>>
Decode(data) ==
  IF Len(data) = 2 /\ data[1] = 255 THEN Ok([id |-> data[2]]) ELSE Err(0)

\* the stub's primitives: fail with the payload the stub was built with, or run the codec
_serialize_query(p, q) ==
  IF p.serFails # NoneOpt THEN Err(p.serFails[1]) ELSE Ok(Encode(q))
_deserialize_response(p, data) ==
  IF p.deFails # NoneOpt THEN Err(p.deFails[1]) ELSE Decode(data)

\* Parser::serialize_query: map_err wraps a primitive's Err and leaves its Ok alone;
\* prim lists the results of the primitive calls it made
serialize_query(p, q) ==
  LET r == _serialize_query(p, q)
  IN [prim |-> <<r>>,
      out |-> IF IsErr(r)
                THEN Err(ErrorOf("ParserError", ErrorDetailNew(SerializeFailed, Some(r.err))))
                ELSE r]

\* deserialize_response wrapping with the message of the other direction
deserialize_responseWrongMessage(p, data) ==
  LET r == _deserialize_response(p, data)
  IN [prim |-> <<r>>,
      out |-> IF IsErr(r)
                THEN Err(ErrorOf("ParserError", ErrorDetailNew(SerializeFailed, Some(r.err))))
                ELSE r]

\* deserialize_response handing over a cursor already moved past the first byte
deserialize_responseSkipping(p, data) ==
  LET r == _deserialize_response(p, IF data = <<>> THEN data ELSE Tail(data))
  IN [prim |-> <<r>>,
      out |-> IF IsErr(r)
                THEN Err(ErrorOf("ParserError", ErrorDetailNew(DeserializeFailed, Some(r.err))))
                ELSE r]

\* Parser::deserialize_response over a cursor at the start of data
deserialize_response(p, data) ==
  LET r == _deserialize_response(p, data)
  IN [prim |-> <<r>>,
      out |-> IF IsErr(r)
                THEN Err(ErrorOf("ParserError", ErrorDetailNew(DeserializeFailed, Some(r.err))))
                ELSE r]

NoCall == [arg |-> NoneOpt, prim |-> <<>>, out |-> NoResult]

InitParser ==
  /\ parser = [serFails |-> NoneOpt, deFails |-> NoneOpt]
  /\ ser = NoCall
  /\ de = NoCall

\* a stub Parser is built; sf and df say whether and how its primitives fail
NewParser(sf, df) ==
  /\ parser' = [serFails |-> sf, deFails |-> df]
  /\ ser' = NoCall
  /\ de' = NoCall
  /\ UNCHANGED <<fetchVars, displayVars>>

SerializeQuery(q) ==
  /\ LET c == serialize_query(parser, q)
     IN ser' = [arg |-> Some(q), prim |-> c.prim, out |-> c.out]
  /\ UNCHANGED <<parser, de, fetchVars, displayVars>>

\* bytes handed to deserialize_response: what serialize_query produced, or other input
WireData == {<<>>, <<255>>, <<0, 0>>, <<255, 0, 0>>}

DeserializeResponse(data) ==
  /\ LET c == deserialize_response(parser, data)
     IN de' = [arg |-> Some(data), prim |-> c.prim, out |-> c.out]
  /\ UNCHANGED <<parser, ser, fetchVars, displayVars>>

NextParser ==
  \/ \E sf \in Options(Payloads), df \in Options(Payloads) : NewParser(sf, df)
  \/ \E q \in Queries : SerializeQuery(q)
  \/ \E data \in WireData \cup (IF IsOk(ser.out) THEN {ser.out.val} ELSE {}) :
       DeserializeResponse(data)

Init == InitFetch /\ InitDisplay /\ InitParser

Spec == Init /\ [][NextFetch]_vars
DisplaySpec == Init /\ [][NextDisplay]_vars
ParserSpec == Init /\ [][NextParser]_vars

\* ------------------------------------------------ reading the trace
Lifecycle == <<"connect", "send_query", "receive_response", "disconnect">>

CallEvents == SelectSeq(trace, LAMBDA e : e.ev = "call")
CallOps == [i \in 1..Len(CallEvents) |-> CallEvents[i].op]

Called(op) == \E i \in 1..Len(trace) : trace[i].ev = "call" /\ trace[i].op = op
Succeeded(op) ==
  \E i \in 1..Len(trace) : trace[i].ev = "ret" /\ trace[i].op = op /\ IsOk(trace[i].res)
Failed(op) ==
  \E i \in 1..Len(trace) : trace[i].ev = "ret" /\ trace[i].op = op /\ IsErr(trace[i].res)
\* the result the stub gave for op
Outcome(op) ==
  LET i == CHOOSE j \in 1..Len(trace) : trace[j].ev = "ret" /\ trace[j].op = op
  IN trace[i].res
ArgOf(op) ==
  LET i == CHOOSE j \in 1..Len(trace) : trace[j].ev = "call" /\ trace[j].op = op
  IN trace[i].arg

\* C1: when connect and send_query succeed and receive_response fails with Er, disconnect
\* is still invoked before fetch returns, and fetch returns Err(Er).
C1_DisconnectAfterReceiveFailure ==
  (pc = "done" /\ Failed("receive_response"))
    => (Called("disconnect") /\ result = Err(Outcome("receive_response").err))

\* C2: when connect fails with Ec, fetch returns exactly Err(Ec) and none of send_query,
\* receive_response, disconnect is invoked.
C2_ConnectFailureReturnedAlone ==
  (pc = "done" /\ Failed("connect"))
    => /\ result = Err(Outcome("connect").err)
       /\ CallOps = <<"connect">>

C2_Witness ==
  /\ pc = "done"
  /\ Failed("connect")
  /\ Outcome("connect").err.detail.inner # NoneOpt
  /\ IsErr(result)

\* C3: when all four steps succeed and receive_response gave Ok(R0), fetch(Q0, addr)
\* returns Ok(R0); connect was given addr and send_query was given Q0.
C3_SuccessReturnsReceivedResponse ==
  (pc = "done" /\ \A op \in {"connect", "send_query", "receive_response", "disconnect"} :
                    Succeeded(op))
    => /\ result = Ok(Outcome("receive_response").val)
       /\ ArgOf("connect") = address
       /\ ArgOf("send_query") = query

C3_Witness ==
  /\ pc = "done"
  /\ Succeeded("disconnect")
  /\ IsOk(result)
  /\ query # NoneOpt
  /\ result.val.id # query[1]

IsPrefixOf(s, t) == Len(s) <= Len(t) /\ \A i \in 1..Len(s) : s[i] = t[i]

\* C4: the operations invoked on the protocol form a prefix of connect, send_query,
\* receive_response, disconnect; each call is answered before the next one is made, and
\* the next one is made only after the previous one returned Ok.
C4_LifecycleIsSequential ==
  /\ IsPrefixOf(CallOps, Lifecycle)
  /\ \A i \in 1..Len(trace) :
       /\ (trace[i].ev = "call") <=> (i % 2 = 1)
       /\ (trace[i].ev = "ret") => trace[i].op = trace[i - 1].op
       /\ (trace[i].ev = "call" /\ i > 1) => IsOk(trace[i - 1].res)

C4_Witness ==
  /\ pc = "done"
  /\ CallOps = Lifecycle
  /\ Len(trace) = 8

\* C6: when the task running fetch is cancelled after connect has succeeded, disconnect is
\* still attempted on the protocol instance.
C6_DisconnectOnCancel ==
  (pc = "cancelled" /\ Succeeded("connect")) => Called("disconnect")

\* C10: when connect succeeds and send_query fails with Es, fetch returns exactly Err(Es),
\* invokes neither receive_response nor disconnect, and the protocol is left Connected.
C10_SendFailureLeavesConnected ==
  (pc = "done" /\ Failed("send_query"))
    => /\ result = Err(Outcome("send_query").err)
       /\ CallOps = <<"connect", "send_query">>
       /\ conn = "Connected"

C10_Witness ==
  /\ pc = "done"
  /\ Failed("send_query")
  /\ Succeeded("connect")
  /\ IsErr(result)

\* C5: a failure E0 of _serialize_query comes back as ParserError with the message
\* "Failed to serialize query" and inner Some(E0); a failure E1 of _deserialize_response
\* comes back as ParserError with the message "Failed to deserialize response" and inner
\* Some(E1): wrapped once, never dropped.
C5_PrimitiveFailureWrappedOnce ==
  LET serText == <<"F", "a", "i", "l", "e", "d", " ", "t", "o", " ", "s", "e", "r", "i", "a",
                   "l", "i", "z", "e", " ", "q", "u", "e", "r", "y">>
      deText == <<"F", "a", "i", "l", "e", "d", " ", "t", "o", " ", "d", "e", "s", "e", "r",
                  "i", "a", "l", "i", "z", "e", " ", "r", "e", "s", "p", "o", "n", "s", "e">>
  IN /\ \A i \in 1..Len(ser.prim) :
          IsErr(ser.prim[i]) =>
            ser.out = Err([variant |-> "ParserError",
                           detail |-> [message |-> serText, inner |-> <<ser.prim[i].err>>]])
     /\ \A i \in 1..Len(de.prim) :
          IsErr(de.prim[i]) =>
            de.out = Err([variant |-> "ParserError",
                          detail |-> [message |-> deText, inner |-> <<de.prim[i].err>>]])

C5_Witness ==
  /\ ser.prim # <<>>
  /\ IsErr(ser.prim[1])
  /\ de.prim # <<>>
  /\ IsErr(de.prim[1])
  /\ IsErr(de.out)
  /\ de.prim[1].err # ser.prim[1].err

\* C7: the text Display writes for an error begins with "[GSTAT ERROR (<Category>): "
\* and then the message, the category being fixed by the variant alone.
C7_DisplayCategoryByVariant ==
  LET claimed == [GameError |-> <<"G", "a", "m", "e">>,
                  ParserError |-> <<"P", "a", "r", "s", "e", "r">>,
                  ProtocolError |-> <<"P", "r", "o", "t", "o", "c", "o", "l">>,
                  QueryError |-> <<"Q", "u", "e", "r", "y">>,
                  ResponseError |-> <<"R", "e", "s", "p", "o", "n", "s", "e">>]
      head == <<"[", "G", "S", "T", "A", "T", " ", "E", "R", "R", "O", "R", " ", "(">>
  IN shown # NoneOpt =>
       IsPrefixOf(head \o claimed[err[1].variant] \o <<")", ":", " ">> \o err[1].detail.message,
                  shown[1])

C7_Witness ==
  /\ shown # NoneOpt
  /\ err[1].variant = "ParserError"
  /\ err[1].detail.message = <<"G", ")">>
  /\ err[1].detail.inner # NoneOpt

\* the Debug text of a payload: the stub payloads are small numbers, written in decimal
DebugFmt(e) == <<<<"0", "1", "2", "3", "4", "5", "6", "7", "8", "9">>[e + 1]>>

\* C8: the text Display writes is "[GSTAT ERROR (<Category>): <message>" followed by the
\* debug text of the inner payload when there is one, and by nothing when there is none.
C8_DisplayShowsInner ==
  shown # NoneOpt =>
    shown[1] = Prefix \o Category(err[1].variant) \o Separator \o err[1].detail.message
                 \o (IF err[1].detail.inner = NoneOpt THEN <<>>
                     ELSE DebugFmt(err[1].detail.inner[1]))

\* C9: when a primitive succeeds the public operation returns its result unchanged after
\* calling it once; with the codec's two primitives inverse to each other,
\* deserialize_response on the bytes serialize_query gave for q yields the response for q.
C9_PassThroughAndRoundTrip ==
  /\ (ser.arg # NoneOpt) => Len(ser.prim) = 1
  /\ (de.arg # NoneOpt) => Len(de.prim) = 1
  /\ (ser.arg # NoneOpt /\ IsOk(ser.prim[1])) => ser.out = ser.prim[1]
  /\ (de.arg # NoneOpt /\ IsOk(de.prim[1])) => de.out = de.prim[1]
  /\ (/\ parser = [serFails |-> NoneOpt, deFails |-> NoneOpt]
      /\ ser.arg # NoneOpt
      /\ IsOk(ser.out)
      /\ de.arg = Some(ser.out.val))
       => de.out = Ok([id |-> ser.arg[1]])

C9_Witness ==
  /\ parser = [serFails |-> NoneOpt, deFails |-> NoneOpt]
  /\ ser.arg = Some(MaxQuery)
  /\ IsOk(ser.out)
  /\ de.arg = Some(ser.out.val)
  /\ IsOk(de.out)

\* C11: when connect, send_query and receive_response succeed (the last with R0) and
\* disconnect fails with Ed, fetch returns Err(Ed) and R0 is discarded; fetch returns
\* Ok(R0) only when all four steps, disconnect included, succeeded.
C11_DisconnectFailureDiscardsResponse ==
  /\ (pc = "done" /\ Failed("disconnect"))
       => /\ Succeeded("receive_response")
          /\ response = Some(Outcome("receive_response").val)
          /\ result = Err(Outcome("disconnect").err)
  /\ IsOk(result)
       => /\ \A op \in {"connect", "send_query", "receive_response", "disconnect"} :
               Succeeded(op)
          /\ result = Ok(Outcome("receive_response").val)

C11_Witness ==
  /\ pc = "done"
  /\ Failed("disconnect")
  /\ Succeeded("receive_response")
  /\ response # NoneOpt
  /\ IsErr(result)
  /\ Outcome("disconnect").err.detail.inner # NoneOpt

====
